---- MODULE Spec2Model ----
(***************************************************************************)
(* Model of the halo viewer's 3D point cloud component (PointCloud3D, the  *)
(* point-size revision) together with the libraries it drives: the React   *)
(* effect lifecycle, the browser's animation-frame queue, the gsap ticker  *)
(* and timeline, and the OrbitControls update step.                        *)
(*                                                                         *)
(* Lengths are integers in units of 0.01 Mpc; unit vectors are fixed-point *)
(* with FixedOne standing for 1.0.                                         *)
(***************************************************************************)
EXTENDS Integers, Sequences, FiniteSets, TLC

\* ------------------------------------------------------------------------
\* Bounds of the model
\* ------------------------------------------------------------------------

\* external events (prop changes, resizes, wheel input, unmount) per behaviour
MaxEvents == 2

\* gsap ticks per second of timeline time
TicksPerSecond == 1

\* ------------------------------------------------------------------------
\* Program constants (lengths in 0.01 Mpc)
\* ------------------------------------------------------------------------

\* selectedHaloId?: number -- the absent value
Undefined == 0

\* useState({ width: 800, height: 600 })
InitWidth == 800
InitHeight == 600

\* camera.position.set(2, 2, 2)
DefaultCamCoord == 200

\* controls.minDistance = 0.1, controls.maxDistance = 50
MinDistance == 10
MaxDistance == 5000

\* duration: 2
Duration == 2

\* Math.max(haloSize * 2, 1.0)            (point-size revision)
FlyToFactor == 2
FlyToFloor == 100

\* Math.max(haloSize * 10, 1.0)           (first revision)
FlyToFactorFirst == 10
FlyToFloorFirst == 100

\* Math.min(haloSize * 3, 0.1)            (instanced revision)
FlyToFactorInstanced == 3
FlyToCapInstanced == 10

\* fixed-point representation of 1.0 for normalised vectors
FixedOne == 1000

\* ------------------------------------------------------------------------
\* Arithmetic helpers
\* ------------------------------------------------------------------------

Max(a, b) == IF a >= b THEN a ELSE b
Min(a, b) == IF a <= b THEN a ELSE b
Abs(a) == IF a >= 0 THEN a ELSE -a

\* division rounded to nearest, as floating point rounds (b > 0)
RoundDiv(a, b) ==
  IF a >= 0 THEN (2 * a + b) \div (2 * b) ELSE -((2 * (-a) + b) \div (2 * b))

RECURSIVE SqrtSearch(_, _, _)
SqrtSearch(n, lo, hi) ==
  IF lo >= hi THEN lo
  ELSE LET mid == (lo + hi + 1) \div 2
       IN IF mid * mid <= n THEN SqrtSearch(n, mid, hi)
          ELSE SqrtSearch(n, lo, mid - 1)

\* Math.sqrt, rounded to nearest
Sqrt(n) ==
  LET f == SqrtSearch(n, 0, Min(n, 46340))
  IN IF n - f * f > f THEN f + 1 ELSE f

RECURSIVE Gcd(_, _)
Gcd(a, b) == IF b = 0 THEN a ELSE Gcd(b, a % b)

\* ------------------------------------------------------------------------
\* THREE.Vector3
\* ------------------------------------------------------------------------

VSub(a, b) == <<a[1] - b[1], a[2] - b[2], a[3] - b[3]>>
VAdd(a, b) == <<a[1] + b[1], a[2] + b[2], a[3] + b[3]>>
LengthSq(v) == v[1] * v[1] + v[2] * v[2] + v[3] * v[3]
VLength(v) == Sqrt(LengthSq(v))

\* mutant of Normalize: a zero vector is replaced by the unit x vector
NormalizeZeroToUnitX(v) ==
  LET len == VLength(v)
  IN IF len = 0 THEN <<FixedOne, 0, 0>>
     ELSE <<RoundDiv(v[1] * FixedOne, len), RoundDiv(v[2] * FixedOne, len),
            RoundDiv(v[3] * FixedOne, len)>>

\* Vector3.normalize(): divideScalar(length() || 1); the result is fixed-point
Normalize(v) ==
  LET len == VLength(v)
      d == IF len = 0 THEN 1 ELSE len
  IN <<RoundDiv(v[1] * FixedOne, d), RoundDiv(v[2] * FixedOne, d),
       RoundDiv(v[3] * FixedOne, d)>>

\* Vector3.multiplyScalar applied to a fixed-point unit vector
MultiplyScalar(u, s) ==
  <<RoundDiv(u[1] * s, FixedOne), RoundDiv(u[2] * s, FixedOne),
    RoundDiv(u[3] * s, FixedOne)>>

\* ------------------------------------------------------------------------
\* Fly-to geometry
\* ------------------------------------------------------------------------

Revisions == {"first", "instanced", "pointsize"}

\* const distance = ... in each revision of the fly-to effect
FlyToDistanceRev(rev, haloSize) ==
  CASE rev = "first" -> Max(haloSize * FlyToFactorFirst, FlyToFloorFirst)
    [] rev = "instanced" -> Min(haloSize * FlyToFactorInstanced, FlyToCapInstanced)
    [] rev = "pointsize" -> Max(haloSize * FlyToFactor, FlyToFloor)

FlyToDistance(haloSize) == FlyToDistanceRev("pointsize", haloSize)

\* newCameraPosition = target - normalize(target - current) * distance
NewCameraPosition(currentPosition, targetPosition, distance) ==
  LET currentToTarget == VSub(targetPosition, currentPosition)
      offsetDirection == Normalize(currentToTarget)
  IN VSub(targetPosition, MultiplyScalar(offsetDirection, distance))

\* ------------------------------------------------------------------------
\* Inputs: the catalog behind the entity arrays, container sizes, colours
\* ------------------------------------------------------------------------

\* catalogQuery.data.halos: two halos on the line x = y = 2 Mpc
Catalog ==
  << [id |-> 1, x |-> 200, y |-> 200, z |-> 0, r200b |-> 20, rc |-> 5, mass |-> 1],
     [id |-> 2, x |-> 200, y |-> 200, z |-> 600, r200b |-> 100, rc |-> 20, mass |-> 2] >>

MassThresholds == {0, 2, 3}
SelectableIds == {Undefined, 1, 2, 3}
Colors == {"#4a90e2", "#ff0000"}
\* getBoundingClientRect() results <<width, height>>
Rects == {<<800, 600>>, <<400, 600>>, <<0, 0>>}

\* Array.prototype.map
MapSeq(seq, F(_)) == [i \in 1..Len(seq) |-> F(seq[i])]

\* mutant of FilteredFrom: a halo exactly at the threshold is dropped
FilteredFromStrict(halos, threshold) ==
  SelectSeq(halos, LAMBDA halo : halo.mass > threshold)

\* catalogQuery.data.halos.filter(halo => halo.mass >= massThreshold)
FilteredFrom(halos, threshold) ==
  SelectSeq(halos, LAMBDA halo : halo.mass >= threshold)

\* the useMemo result: six arrays mapped from the filtered halos
ArraysFrom(halos, threshold) ==
  LET filteredHalos == FilteredFrom(halos, threshold)
  IN [x |-> MapSeq(filteredHalos, LAMBDA halo : halo.x),
      y |-> MapSeq(filteredHalos, LAMBDA halo : halo.y),
      z |-> MapSeq(filteredHalos, LAMBDA halo : halo.z),
      size |-> MapSeq(filteredHalos, LAMBDA halo : halo.r200b),
      core_size |-> MapSeq(filteredHalos, LAMBDA halo : halo.rc),
      ids |-> MapSeq(filteredHalos, LAMBDA halo : halo.id)]

\* halos.filter(halo => halo.mass >= massThreshold)
FilteredHalos(massThreshold) == FilteredFrom(Catalog, massThreshold)

\* the arrays handed to PointCloud3D
Arrays(massThreshold) == ArraysFrom(Catalog, massThreshold)

\* mutant of FindIndex: a miss is not told apart from the first entry
FindIndexFirstOnMiss(ids, selected) ==
  IF \E i \in 1..Len(ids) : ids[i] = selected
  THEN CHOOSE i \in 1..Len(ids) :
         ids[i] = selected /\ \A j \in 1..(i - 1) : ids[j] # selected
  ELSE 1

\* ids.findIndex(id => id === selectedHaloId); 0 stands for -1
FindIndex(ids, selected) ==
  IF \E i \in 1..Len(ids) : ids[i] = selected
  THEN CHOOSE i \in 1..Len(ids) :
         ids[i] = selected /\ \A j \in 1..(i - 1) : ids[j] # selected
  ELSE 0

\* width / height as a reduced fraction; <<0,0>> is NaN and <<1,0>> Infinity
Aspect(w, h) ==
  LET g == Gcd(w, h) IN IF g = 0 THEN <<0, 0>> ELSE <<w \div g, h \div g>>

\* ------------------------------------------------------------------------
\* The program state
\* ------------------------------------------------------------------------

VARIABLES
  phase,           \* "init", "mounted" or "unmounted"
  selectedHaloId,  \* prop
  massThreshold,   \* prop of the parent; decides the entity arrays
  pointColor,      \* prop
  container,       \* the mount element's bounding rect
  dimensions,      \* useState dimensions
  pendingDims,     \* the queued setDimensions value, <<>> when none
  objs,            \* the scenes built so far: camera, controls, renderer, material
  refs,            \* cameraRef, controlsRef, rendererRef, materialRef (0 = undefined)
  frameId,         \* frameId.current (0 = undefined)
  sceneCleanup,    \* build whose cleanup the scene effect returned (0 = none)
  flyCleanup,      \* timeline whose kill the fly-to effect returned (0 = none)
  rafQueue,        \* pending requestAnimationFrame callbacks
  gsapAwake,       \* whether the gsap ticker is awake
  gsapId,          \* the gsap ticker's pending request id
  timelines,       \* gsap's active timelines, in creation order
  started,         \* number of timelines created so far
  frameLog,        \* what happened in the current (or last) tick, in order
  killed,          \* history: timelines killed while still active
  events,          \* external events so far
  probe,           \* inputs and result of the last pure computation probed
  api,             \* api.ts: haloCatalogCache, haloCatalogPromise, loads and calls
  worker           \* the Pyodide worker: pyodide, runtime loads and commands

vars == <<phase, selectedHaloId, massThreshold, pointColor, container, dimensions,
          pendingDims, objs, refs, frameId, sceneCleanup, flyCleanup, rafQueue,
          gsapAwake, gsapId, timelines, started, frameLog, killed, events, probe,
          api, worker>>

State ==
  [phase |-> phase, selectedHaloId |-> selectedHaloId, massThreshold |-> massThreshold,
   pointColor |-> pointColor, container |-> container, dimensions |-> dimensions,
   pendingDims |-> pendingDims, objs |-> objs, refs |-> refs, frameId |-> frameId,
   sceneCleanup |-> sceneCleanup, flyCleanup |-> flyCleanup, rafQueue |-> rafQueue,
   running |-> <<>>, gsapAwake |-> gsapAwake, gsapId |-> gsapId,
   timelines |-> timelines, started |-> started, frameLog |-> frameLog,
   killed |-> killed, events |-> events]

\* ------------------------------------------------------------------------
\* Browser: requestAnimationFrame / cancelAnimationFrame
\* ------------------------------------------------------------------------

RafIds == 1..(2 * MaxEvents + 8)

\* a request id no pending request and no ref holds (the browser hands out
\* ids it has not handed out before; only equality of ids matters)
FreshId(s) ==
  LET used == {s.rafQueue[i].id : i \in 1..Len(s.rafQueue)}
                \cup {s.running[i].id : i \in 1..Len(s.running)}
                \cup {s.frameId, s.gsapId}
  IN CHOOSE i \in RafIds : i \notin used /\ \A j \in 1..(i - 1) : j \in used

CancelAnimationFrame(s, id) ==
  [s EXCEPT !.rafQueue = SelectSeq(@, LAMBDA r : r.id # id),
            !.running = SelectSeq(@, LAMBDA r : r.id # id)]

\* ------------------------------------------------------------------------
\* The tick log
\* ------------------------------------------------------------------------

\* one entry of the log: what was done, to which build, by which timeline
Event(s, type, g, tl, by, dolly) ==
  [type |-> type, gen |-> g, tl |-> tl, by |-> by, dolly |-> dolly,
   halo |-> IF \E i \in 1..Len(s.timelines) : s.timelines[i].id = tl
            THEN s.timelines[CHOOSE i \in 1..Len(s.timelines) :
                               s.timelines[i].id = tl].halo
            ELSE Undefined,
   pos |-> s.objs[g].pos, target |-> s.objs[g].target,
   aspect |-> s.objs[g].aspect, rsize |-> s.objs[g].rsize,
   viewport |-> s.objs[g].viewport, disposed |-> s.objs[g].disposed,
   posFraction |-> <<0, 1>>, targetFraction |-> <<0, 1>>]

Log(s, type, g, tl, by, dolly) ==
  [s EXCEPT !.frameLog = Append(@, Event(s, type, g, tl, by, dolly))]

\* ------------------------------------------------------------------------
\* OrbitControls.update(): re-derive the camera position from the offset to
\* the target, with the pending dolly scale and the distance clamp
\* ------------------------------------------------------------------------

OrbitPosition(pos, target, scale) ==
  LET offset == VSub(pos, target)
      r == VLength(offset)
      clamped == Max(MinDistance, Min(MaxDistance, r * scale))
      newOffset ==
        IF r = 0 THEN <<0, clamped, 0>>
        ELSE IF clamped = r THEN offset
        ELSE <<RoundDiv(offset[1] * clamped, r), RoundDiv(offset[2] * clamped, r),
               RoundDiv(offset[3] * clamped, r)>>
  IN VAdd(target, newOffset)

ControlsUpdate(s, g, by) ==
  LET o == s.objs[g]
      s1 == [s EXCEPT !.objs[g].pos = OrbitPosition(o.pos, o.target, o.scale),
                      !.objs[g].scale = 1]
  IN Log(s1, "update", g, 0, by, o.scale # 1)

\* renderer.render(scene, camera)
Render(s, g) == Log(s, "render", g, 0, "loop", FALSE)

\* ------------------------------------------------------------------------
\* The render loop: animate
\* ------------------------------------------------------------------------

Animate(s, g) ==
  LET id == FreshId([s EXCEPT !.frameId = 0])
      s1 == [s EXCEPT !.rafQueue = Append(@, [fn |-> "animate", id |-> id, gen |-> g]),
                      !.frameId = id]
      s2 == ControlsUpdate(s1, g, "loop")
  IN Render(s2, g)

\* ------------------------------------------------------------------------
\* gsap: timeline of two tweens at offset 0, ease power2.inOut
\* ------------------------------------------------------------------------

TotalTicks == Duration * TicksPerSecond

\* power2.inOut at progress n / TotalTicks, as a fraction of TotalTicks^3
EaseNum(n) ==
  LET N == TotalTicks
  IN IF 2 * n < N THEN 4 * n * n * n
     ELSE N * N * N - 4 * (N - n) * (N - n) * (N - n)

EaseDen == TotalTicks * TotalTicks * TotalTicks

Interp(a, b, n) ==
  <<a[1] + RoundDiv((b[1] - a[1]) * EaseNum(n), EaseDen),
    a[2] + RoundDiv((b[2] - a[2]) * EaseNum(n), EaseDen),
    a[3] + RoundDiv((b[3] - a[3]) * EaseNum(n), EaseDen)>>

\* mutant of TargetTween: without the position parameter 0 the tween is
\* appended at the end of the timeline, after the camera tween
TargetTweenAppended ==
  [start |-> Duration, duration |-> Duration, ease |-> "power2.inOut"]

\* tl.to(camera.position, {duration: 2, ..., ease: "power2.inOut"}): the first
\* tween of an empty timeline starts at 0
PositionTween == [start |-> 0, duration |-> Duration, ease |-> "power2.inOut"]

\* .to(controls.target, {duration: 2, ..., ease: "power2.inOut"}, 0)
TargetTween == [start |-> 0, duration |-> Duration, ease |-> "power2.inOut"]

\* the timeline lasts until its last tween ends
TimelineTicks ==
  Max(PositionTween.start + PositionTween.duration,
      TargetTween.start + TargetTween.duration) * TicksPerSecond

\* ticks a tween has played when the timeline has played n
TweenProgress(tween, n) ==
  Max(0, Min(tween.duration * TicksPerSecond, n - tween.start * TicksPerSecond))

\* the eased fraction of a tween when the timeline has played n ticks
TweenFraction(tween, n) ==
  LET D == tween.duration * TicksPerSecond
      p == TweenProgress(tween, n)
      num == CASE tween.ease = "power2.inOut" ->
                    IF 2 * p < D THEN 4 * p * p * p
                    ELSE D * D * D - 4 * (D - p) * (D - p) * (D - p)
               [] OTHER -> p * D * D
      g == Gcd(num, D * D * D)
  IN <<num \div g, (D * D * D) \div g>>

\* the fractions at which the two tweens of a timeline rendered in this tick
LogFractions(s, posFraction, targetFraction) ==
  [s EXCEPT !.frameLog[Len(s.frameLog)].posFraction = posFraction,
            !.frameLog[Len(s.frameLog)].targetFraction = targetFraction]

TimelineIndex(s, id) ==
  IF \E i \in 1..Len(s.timelines) : s.timelines[i].id = id
  THEN CHOOSE i \in 1..Len(s.timelines) : s.timelines[i].id = id
  ELSE 0

\* removing a timeline from the ticker's list
Remove(s, id) == [s EXCEPT !.timelines = SelectSeq(@, LAMBDA t : t.id # id)]

\* tl.kill()
Kill(s, id) ==
  IF TimelineIndex(s, id) = 0 THEN s
  ELSE [Remove(s, id) EXCEPT !.killed = @ \cup {id}]

\* one ticker step of one timeline: both tweens render, then the target tween's
\* onUpdate runs controls.update()
TickTimeline(s, id) ==
  LET i == TimelineIndex(s, id)
      t0 == s.timelines[i]
      \* a tween reads its start values when it first renders
      t == IF t0.step = 0
           THEN [t0 EXCEPT !.fromPos = s.objs[t0.camera].pos,
                           !.fromTarget = s.objs[t0.controls].target]
           ELSE t0
      n == t.step + 1
      s1 == [s EXCEPT !.objs[t.camera].pos =
                        Interp(t.fromPos, t.toPos, TweenProgress(PositionTween, n)),
                      !.objs[t.controls].target =
                        Interp(t.fromTarget, t.toTarget, TweenProgress(TargetTween, n))]
      s2 == LogFractions(Log(s1, IF n = TimelineTicks THEN "animEnd" ELSE "anim",
                             t.camera, id, "gsap", FALSE),
                         TweenFraction(PositionTween, n), TweenFraction(TargetTween, n))
      \* onUpdate fires when the target tween renders
      s3 == IF n > TargetTween.start * TicksPerSecond
            THEN ControlsUpdate(s2, t.controls, "onUpdate")
            ELSE s2
  IN IF n = TimelineTicks THEN Remove(s3, id)
     ELSE [s3 EXCEPT !.timelines[i] = [t EXCEPT !.step = n]]

RECURSIVE TickAll(_, _)
TickAll(s, ids) ==
  IF ids = <<>> THEN s ELSE TickAll(TickTimeline(s, Head(ids)), Tail(ids))

\* the ticker's frame callback: request the next frame, then render every
\* active timeline; an idle ticker may go to sleep instead (autoSleep)
GsapTick(s, sleep) ==
  LET id == FreshId([s EXCEPT !.gsapId = 0])
      s1 == [s EXCEPT !.rafQueue = Append(@, [fn |-> "gsap", id |-> id, gen |-> 0]),
                      !.gsapId = id]
      s2 == TickAll(s1, MapSeq(s1.timelines, LAMBDA t : t.id))
  IN IF sleep /\ s.timelines = <<>>
     THEN [CancelAnimationFrame(s1, id) EXCEPT !.gsapAwake = FALSE, !.gsapId = 0]
     ELSE s2

\* creating an animation wakes a sleeping ticker
Wake(s) ==
  IF s.gsapAwake THEN s
  ELSE LET id == FreshId(s)
       IN [s EXCEPT !.rafQueue = Append(@, [fn |-> "gsap", id |-> id, gen |-> 0]),
                    !.gsapId = id, !.gsapAwake = TRUE]

\* ------------------------------------------------------------------------
\* PointCloud3D: handleResize
\* ------------------------------------------------------------------------

\* mutant of HandleResizeBody: the viewportSize uniform is not updated
HandleResizeBodyStaleUniform(s) ==
  LET width == s.container[1]
      height == Min(width, s.container[2])
      s1 == [s EXCEPT !.pendingDims = <<width, height>>]
  IN IF s1.refs.renderer # 0 /\ s1.refs.camera # 0
     THEN [s1 EXCEPT !.objs[s1.refs.renderer].rsize = <<width, height>>,
                     !.objs[s1.refs.camera].aspect = Aspect(width, height)]
     ELSE s1

HandleResizeBody(s) ==
  LET width == s.container[1]
      height == Min(width, s.container[2])
      s1 == [s EXCEPT !.pendingDims = <<width, height>>]
      s2 == IF s1.refs.renderer # 0 /\ s1.refs.camera # 0
            THEN [s1 EXCEPT !.objs[s1.refs.renderer].rsize = <<width, height>>,
                            !.objs[s1.refs.camera].aspect = Aspect(width, height)]
            ELSE s1
  IN IF s2.refs.material # 0
     THEN [s2 EXCEPT !.objs[s2.refs.material].viewport = <<width, height>>]
     ELSE s2

\* ------------------------------------------------------------------------
\* PointCloud3D: the scene effect and its cleanup
\* ------------------------------------------------------------------------

\* what one run of the scene effect allocates on the GPU: the point geometry
\* and shader material, the renderer, and the geometry and material that
\* GridHelper and AxesHelper each create
SceneResources ==
  {"geometry", "material", "renderer", "gridHelper.geometry", "gridHelper.material",
   "axesHelper.geometry", "axesHelper.material"}

\* what the cleanup disposes: geometry.dispose(), material.dispose(),
\* renderer.dispose()
DisposedResources == {"geometry", "material", "renderer"}

NewScene(s) ==
  [pos |-> <<DefaultCamCoord, DefaultCamCoord, DefaultCamCoord>>,
   target |-> <<0, 0, 0>>,
   aspect |-> Aspect(s.dimensions[1], s.dimensions[2]),
   rsize |-> s.dimensions,
   viewport |-> s.dimensions,
   color |-> s.pointColor,
   arrays |-> Arrays(s.massThreshold),
   scale |-> 1,
   live |-> SceneResources,
   disposed |-> FALSE]

SceneEffect(s) ==
  IF s.dimensions[1] = 0 \/ s.dimensions[2] = 0
  THEN [s EXCEPT !.sceneCleanup = 0]
  ELSE LET g == Len(s.objs) + 1
           s1 == [s EXCEPT !.objs = Append(@, NewScene(s)),
                           !.refs = [camera |-> g, controls |-> g,
                                     renderer |-> g, material |-> g],
                           !.sceneCleanup = g,
                           !.frameLog = <<>>]
       IN Animate(s1, g)

\* mutant of SceneCleanup: the pending frame request is not cancelled
SceneCleanupNoCancel(s) ==
  IF s.sceneCleanup = 0 THEN s
  ELSE [s EXCEPT !.objs[s.sceneCleanup].disposed = TRUE,
                 !.objs[s.sceneCleanup].live = @ \ DisposedResources,
                 !.sceneCleanup = 0]

SceneCleanup(s) ==
  IF s.sceneCleanup = 0 THEN s
  ELSE LET s1 == IF s.frameId # 0 THEN CancelAnimationFrame(s, s.frameId) ELSE s
       IN [s1 EXCEPT !.objs[s.sceneCleanup].disposed = TRUE,
                     !.objs[s.sceneCleanup].live = @ \ DisposedResources,
                     !.sceneCleanup = 0]

\* ------------------------------------------------------------------------
\* PointCloud3D: the fly-to effect and its cleanup
\* ------------------------------------------------------------------------

\* the effect body, given the arrays of the current render; the revisions
\* differ in the distance only
FlyToEffectOn(s, a, rev) ==
  LET haloIndex == FindIndex(a.ids, s.selectedHaloId)
  IN IF s.selectedHaloId = Undefined \/ Len(a.ids) = 0
        \/ s.refs.camera = 0 \/ s.refs.controls = 0
     THEN [s EXCEPT !.flyCleanup = 0]
     ELSE IF haloIndex = 0
     THEN [s EXCEPT !.flyCleanup = 0]
     ELSE LET targetPosition == <<a.x[haloIndex], a.y[haloIndex], a.z[haloIndex]>>
              haloSize == a.size[haloIndex]
              distance == FlyToDistanceRev(rev, haloSize)
              currentPosition == s.objs[s.refs.camera].pos
              newCameraPosition ==
                NewCameraPosition(currentPosition, targetPosition, distance)
              id == s.started + 1
              tl == [id |-> id, camera |-> s.refs.camera, controls |-> s.refs.controls,
                     halo |-> s.selectedHaloId,
                     fromPos |-> currentPosition,
                     fromTarget |-> s.objs[s.refs.controls].target,
                     toPos |-> newCameraPosition, toTarget |-> targetPosition,
                     step |-> 0]
          IN [Wake(s) EXCEPT !.timelines = Append(@, tl), !.started = id,
                             !.flyCleanup = id]

FlyToEffect(s) == FlyToEffectOn(s, Arrays(s.massThreshold), "pointsize")

\* mutant of FlyToCleanup: the timeline is left running
FlyToCleanupNoKill(s) == [s EXCEPT !.flyCleanup = 0]

FlyToCleanup(s) ==
  IF s.flyCleanup = 0 THEN s
  ELSE [Kill(s, s.flyCleanup) EXCEPT !.flyCleanup = 0]

\* ------------------------------------------------------------------------
\* React commits: effects whose dependencies changed clean up in order,
\* then run in order
\* ------------------------------------------------------------------------

\* mount: resize-observer effect, scene effect, fly-to effect
MountEffects(s) ==
  FlyToEffect(SceneEffect(HandleResizeBody([s EXCEPT !.phase = "mounted"])))

\* dependencies [x, y, z, size, core_size] changed: both effects re-run
EntitiesCommit(s) == FlyToEffect(SceneEffect(FlyToCleanup(SceneCleanup(s))))

\* only pointColor or dimensions changed: the scene effect alone re-runs
SceneCommit(s) == SceneEffect(SceneCleanup(s))

\* only selectedHaloId changed: the fly-to effect alone re-runs
SelectionCommit(s) == FlyToEffect(FlyToCleanup(s))

\* unmount: every effect's cleanup
UnmountCommit(s) ==
  [FlyToCleanup(SceneCleanup(s)) EXCEPT !.phase = "unmounted", !.pendingDims = <<>>]

\* ------------------------------------------------------------------------
\* Actions
\* ------------------------------------------------------------------------

\* the callbacks of one frame run back to back, in the order requested
RECURSIVE RunCallbacks(_, _)
RunCallbacks(s, sleep) ==
  IF s.running = <<>> THEN s
  ELSE LET cb == Head(s.running)
           s1 == [s EXCEPT !.running = Tail(@)]
       IN RunCallbacks(IF cb.fn = "animate" THEN Animate(s1, cb.gen)
                       ELSE GsapTick(s1, sleep), sleep)

\* objects nothing refers to any more are garbage: their fields cannot be read
\* (what they still hold on the GPU stays allocated)
Referenced(s) ==
  {s.refs.camera, s.refs.controls, s.refs.renderer, s.refs.material, s.sceneCleanup}
    \cup {s.timelines[i].camera : i \in 1..Len(s.timelines)}
    \cup {s.timelines[i].controls : i \in 1..Len(s.timelines)}
    \cup {s.rafQueue[i].gen : i \in 1..Len(s.rafQueue)}

Garbage ==
  [pos |-> <<0, 0, 0>>, target |-> <<0, 0, 0>>, aspect |-> <<0, 0>>,
   rsize |-> <<0, 0>>, viewport |-> <<0, 0>>, color |-> "", arrays |-> <<>>,
   scale |-> 1, live |-> {}, disposed |-> TRUE]

Collect(s) ==
  [g \in 1..Len(s.objs) |->
     IF g \in Referenced(s) THEN s.objs[g]
     ELSE [Garbage EXCEPT !.live = s.objs[g].live]]

Becomes(s) ==
  /\ phase' = s.phase
  /\ selectedHaloId' = s.selectedHaloId
  /\ massThreshold' = s.massThreshold
  /\ pointColor' = s.pointColor
  /\ container' = s.container
  /\ dimensions' = s.dimensions
  /\ pendingDims' = s.pendingDims
  /\ objs' = Collect(s)
  /\ refs' = s.refs
  /\ frameId' = s.frameId
  /\ sceneCleanup' = s.sceneCleanup
  /\ flyCleanup' = s.flyCleanup
  /\ rafQueue' = s.rafQueue
  /\ gsapAwake' = s.gsapAwake
  /\ gsapId' = s.gsapId
  /\ timelines' = s.timelines
  /\ started' = s.started
  /\ frameLog' = s.frameLog
  /\ killed' = s.killed
  /\ events' = s.events
  /\ probe' = probe
  /\ api' = api
  /\ worker' = worker

Budget == events < MaxEvents
\* an external event: the previous tick is over
Spend(s) == [s EXCEPT !.events = @ + 1, !.frameLog = <<>>]

\* the component before it mounts
Unmounted(selected, rect, awake) ==
  /\ phase = "init"
  /\ selectedHaloId = selected
  /\ massThreshold = 0
  /\ pointColor = "#4a90e2"
  /\ container = rect
  /\ dimensions = <<InitWidth, InitHeight>>
  /\ pendingDims = <<>>
  /\ objs = <<>>
  /\ refs = [camera |-> 0, controls |-> 0, renderer |-> 0, material |-> 0]
  /\ frameId = 0
  /\ sceneCleanup = 0
  /\ flyCleanup = 0
  /\ gsapAwake = awake
  /\ gsapId = IF gsapAwake THEN 1 ELSE 0
  /\ rafQueue = IF gsapAwake THEN <<[fn |-> "gsap", id |-> 1, gen |-> 0]>> ELSE <<>>
  /\ timelines = <<>>
  /\ started = 0
  /\ frameLog = <<>>
  /\ killed = {}
  /\ events = 0
  /\ probe = <<>>
  /\ api = [haloCatalogCache |-> 0, haloCatalogPromise |-> 0, loads |-> <<>>,
            calls |-> <<>>]
  /\ worker = [pyodide |-> 0, loads |-> <<>>, commands |-> <<>>]

Init ==
  \E selected \in {Undefined, 1}, rect \in Rects, awake \in BOOLEAN :
    Unmounted(selected, rect, awake)

Mount ==
  /\ phase = "init"
  /\ Becomes(MountEffects(State))

\* React applies the queued setDimensions: a new dimensions object
Rerender ==
  /\ phase = "mounted" /\ pendingDims # <<>>
  /\ Becomes(SceneCommit([State EXCEPT !.dimensions = pendingDims,
                                       !.pendingDims = <<>>, !.frameLog = <<>>]))

\* the ResizeObserver callback
HandleResize ==
  /\ phase = "mounted" /\ Budget
  /\ \E rect \in Rects :
       Becomes(HandleResizeBody(Spend([State EXCEPT !.container = rect])))

SelectionChange ==
  /\ phase = "mounted" /\ Budget
  /\ \E id \in SelectableIds \ {selectedHaloId} :
       Becomes(SelectionCommit(Spend([State EXCEPT !.selectedHaloId = id])))

EntitiesChange ==
  /\ phase = "mounted" /\ Budget
  /\ \E th \in MassThresholds \ {massThreshold} :
       Becomes(EntitiesCommit(Spend([State EXCEPT !.massThreshold = th])))

ColorChange ==
  /\ phase = "mounted" /\ Budget
  /\ \E c \in Colors \ {pointColor} :
       Becomes(SceneCommit(Spend([State EXCEPT !.pointColor = c])))

\* a wheel event on the live canvas: OrbitControls queues a dolly-out
UserDolly ==
  /\ phase = "mounted" /\ Budget /\ sceneCleanup # 0
  /\ objs[sceneCleanup].scale = 1
  /\ Becomes(Spend([State EXCEPT !.objs[sceneCleanup].scale = 2]))

Unmount ==
  /\ phase = "mounted" /\ Budget
  /\ Becomes(UnmountCommit(Spend(State)))

\* a display frame: the callbacks requested so far run, in order
Frame ==
  /\ rafQueue # <<>>
  /\ \E sleep \in BOOLEAN :
       Becomes(RunCallbacks([State EXCEPT !.running = rafQueue, !.rafQueue = <<>>,
                                          !.frameLog = <<>>], sleep))

Next ==
  \/ Mount
  \/ Rerender
  \/ HandleResize
  \/ SelectionChange
  \/ EntitiesChange
  \/ ColorChange
  \/ UserDolly
  \/ Unmount
  \/ Frame

Spec == Init /\ [][Next]_vars

\* ------------------------------------------------------------------------
\* The fly-to end position as a pure function of its inputs
\* ------------------------------------------------------------------------

ProbePoints ==
  {<<0, 0, 0>>, <<100, 0, 0>>, <<200, 200, 200>>, <<200, 200, 0>>, <<200, 200, 600>>,
   <<300, 400, 0>>, <<0, 400, 300>>, <<300, 0, 0>>}
ProbeRadii == {1, 2, 10, 20, 100}

\* inputs for which the fixed-point arithmetic loses nothing
ExactFlyTo(current, target, distance) ==
  LET v == VSub(target, current)
      len == VLength(v)
      d == IF len = 0 THEN 1 ELSE len
      u == Normalize(v)
  IN /\ len * len = LengthSq(v)
     /\ \A i \in 1..3 : /\ (Abs(v[i]) * FixedOne) % d = 0
                          /\ (Abs(u[i]) * distance) % FixedOne = 0

ProbeFlyTo ==
  /\ \E rev \in Revisions, current \in ProbePoints, target \in ProbePoints,
        haloSize \in ProbeRadii :
       LET distance == FlyToDistanceRev(rev, haloSize)
       IN /\ ExactFlyTo(current, target, distance)
          /\ probe' = [op |-> "flyTo", rev |-> rev, current |-> current,
                        target |-> target, haloSize |-> haloSize,
                        distance |-> distance,
                        newCameraPosition |->
                          NewCameraPosition(current, target, distance)]
  /\ UNCHANGED <<phase, selectedHaloId, massThreshold, pointColor, container,
                 dimensions, pendingDims, objs, refs, frameId, sceneCleanup,
                 flyCleanup, rafQueue, gsapAwake, gsapId, timelines, started,
                 frameLog, killed, events, api, worker>>

InitFlyTo == Unmounted(Undefined, <<InitWidth, InitHeight>>, FALSE)
NextFlyTo == ProbeFlyTo
SpecFlyTo == InitFlyTo /\ [][NextFlyTo]_vars

\* ------------------------------------------------------------------------
\* Properties of the component
\* ------------------------------------------------------------------------

LogIdx == 1..Len(frameLog)
IsAnim(e) == e.type \in {"anim", "animEnd"}
CatalogHalo(id) == Catalog[CHOOSE i \in 1..Len(Catalog) : Catalog[i].id = id]
HaloPosition(id) == <<CatalogHalo(id).x, CatalogHalo(id).y, CatalogHalo(id).z>>
PendingAnimate == SelectSeq(rafQueue, LAMBDA r : r.fn = "animate")

\* pos is at the fly-to distance from the halo, to within one length unit
\* (the fixed-point arithmetic rounds every component)
AtFlyToDistance(pos, halo) ==
  Abs(VLength(VSub(pos, HaloPosition(halo))) - FlyToDistance(CatalogHalo(halo).r200b))
    <= 1

\* the animator's final write put the camera at the fly-to distance from the
\* halo and the orbit target on the halo
EndsAtHalo(e) == e.target = HaloPosition(e.halo) /\ AtFlyToDistance(e.pos, e.halo)

\* C2: a new fly-to started while one is in progress leaves exactly one
\* active interpolation: the earlier timeline is killed before the new one
\* starts, a killed timeline never writes again, and the timeline that
\* completes leaves its camera and orbit target at its own entity's end state.
C2_OneActiveInterpolation ==
  /\ Len(timelines) <= 1
  /\ \A i \in LogIdx : IsAnim(frameLog[i]) => frameLog[i].tl \notin killed
  /\ \A i \in LogIdx : frameLog[i].type = "animEnd" => EndsAtHalo(frameLog[i])

\* the second timeline completed after the first was killed in flight
C2_Witness ==
  \E i \in LogIdx :
    /\ frameLog[i].type = "animEnd" /\ frameLog[i].tl = 2 /\ frameLog[i].halo = 2
    /\ 1 \in killed /\ selectedHaloId = 2

\* the ids of the halos that pass the current mass threshold
CurrentIds ==
  {Catalog[i].id : i \in {j \in 1..Len(Catalog) : Catalog[j].mass >= massThreshold}}

Unresolvable == selectedHaloId = Undefined \/ selectedHaloId \notin CurrentIds

\* C3: with selectedId undefined, the entity set empty or the id not among
\* the current ids, the animator is idle: no timeline exists, the animator
\* writes nothing, and the render loop of a live scene keeps its request.
C3_UnresolvableStaysIdle ==
  Unresolvable =>
    /\ timelines = <<>>
    /\ \A i \in LogIdx : ~IsAnim(frameLog[i])
    /\ sceneCleanup # 0 =>
         \E i \in 1..Len(rafQueue) :
           rafQueue[i].fn = "animate" /\ rafQueue[i].gen = sceneCleanup

\* an id missing from the entity set was selected and frames are rendered
C3_Witness ==
  /\ phase = "mounted" /\ selectedHaloId = 3 /\ started > 0
  /\ \E i \in LogIdx : frameLog[i].type = "render"

\* C4: after any scene teardown no fly-to interpolation remains active on
\* the torn-down camera/controls, and no tick mutates a disposed camera.
C4_NoInterpolationOnDisposed ==
  /\ \A i \in 1..Len(timelines) : ~objs[timelines[i].camera].disposed
  /\ \A i \in LogIdx : IsAnim(frameLog[i]) => ~frameLog[i].disposed

\* C5: when a fly-to for a valid selection completes (no wheel input in that
\* tick), the camera being rendered has its orbit target on the selected
\* entity and is at distance max(outerRadius * k, floor) from it.
C5_CompletedFlyToFocusesRenderedCamera ==
  \A i \in LogIdx :
    (frameLog[i].type = "animEnd" /\ \A j \in LogIdx : ~frameLog[j].dolly) =>
      /\ sceneCleanup # 0
      /\ objs[sceneCleanup].target = HaloPosition(frameLog[i].halo)
      /\ AtFlyToDistance(objs[sceneCleanup].pos, frameLog[i].halo)

\* C6: at most one render-loop frame request is pending; a live scene has
\* exactly one, named by frameId.current; none is pending without a live
\* scene, in particular after unmount.
C6_OnePendingFrameRequest ==
  /\ Len(PendingAnimate) <= 1
  /\ sceneCleanup # 0 =>
       /\ Len(PendingAnimate) = 1
       /\ PendingAnimate[1].id = frameId
       /\ PendingAnimate[1].gen = sceneCleanup
  /\ (sceneCleanup = 0 \/ phase = "unmounted") => PendingAnimate = <<>>

\* unmounted after at least two scene builds whose loops ran
C6_Witness == phase = "unmounted" /\ Len(objs) >= 2 /\ frameId # 0

\* C7: in a frame in which a fly-to advances, the advance comes first, the
\* controller updates after it and the render after that.
C7_AdvanceThenUpdateThenRender ==
  \A i \in LogIdx : \A j \in LogIdx :
    /\ (IsAnim(frameLog[j]) /\ frameLog[i].type \in {"update", "render"}) => j < i
    /\ (frameLog[j].type = "update" /\ frameLog[i].type = "render") => j < i

\* C8: the controller of the scene being rendered is updated exactly once
\* in every tick, animating or not.
C8_OneUpdatePerTick ==
  \A i \in LogIdx :
    frameLog[i].type = "render" =>
      Cardinality({j \in LogIdx : /\ frameLog[j].type = "update"
                                  /\ frameLog[j].gen = frameLog[i].gen}) = 1

\* C9: in a tick the camera position and orbit target of a scene are written
\* by the animator or by the controller, never by both.
C9_OneWriterPerTick ==
  \A i \in LogIdx : \A j \in LogIdx :
    ~(IsAnim(frameLog[i]) /\ frameLog[j].type = "update"
      /\ frameLog[j].gen = frameLog[i].gen)

\* C10: whenever a scene is rendered its camera aspect is the renderer's
\* width / height and the viewportSize uniform is the renderer's size; the
\* same holds of the live scene between ticks, across resize and rebuild.
C10_AspectAndUniformMatchRenderer ==
  /\ \A i \in LogIdx :
       frameLog[i].type = "render" =>
         /\ frameLog[i].aspect = Aspect(frameLog[i].rsize[1], frameLog[i].rsize[2])
         /\ frameLog[i].viewport = frameLog[i].rsize
  /\ sceneCleanup # 0 =>
       /\ objs[sceneCleanup].aspect
            = Aspect(objs[sceneCleanup].rsize[1], objs[sceneCleanup].rsize[2])
       /\ objs[sceneCleanup].viewport = objs[sceneCleanup].rsize

\* a tick rendered after a resize and before the rebuild it triggers
C10_Witness ==
  /\ pendingDims # <<>> /\ pendingDims # dimensions
  /\ \E i \in LogIdx :
       frameLog[i].type = "render" /\ frameLog[i].rsize = pendingDims

Cross(a, b) ==
  <<a[2] * b[3] - a[3] * b[2], a[3] * b[1] - a[1] * b[3], a[1] * b[2] - a[2] * b[1]>>
Dot(a, b) == a[1] * b[1] + a[2] * b[2] + a[3] * b[3]

\* end lies on the ray from target toward current, at the given distance
OnRayAtDistance(end, target, current, distance) ==
  LET off == VSub(end, target)
      back == VSub(current, target)
  IN /\ Cross(off, back) = <<0, 0, 0>>
     /\ Dot(off, back) > 0
     /\ LengthSq(off) = distance * distance

\* the multiplier k and the floor of each revision, as the claim reads them
ClaimedFactor(rev) ==
  CASE rev = "first" -> FlyToFactorFirst
    [] rev = "instanced" -> FlyToFactorInstanced
    [] rev = "pointsize" -> FlyToFactor
ClaimedFloor(rev) ==
  CASE rev = "first" -> FlyToFloorFirst
    [] rev = "instanced" -> FlyToCapInstanced
    [] rev = "pointsize" -> FlyToFloor

FlyToProbed == probe # <<>> /\ probe.op = "flyTo"

\* C1: for a camera at P different from the entity position E, the fly-to's
\* end camera position lies on the line from E back toward P, at distance
\* exactly max(outerRadius * k, floor) from E (every revision).
C1_EndOnRayAtMaxDistance ==
  (FlyToProbed /\ probe.current # probe.target) =>
    OnRayAtDistance(probe.newCameraPosition, probe.target, probe.current,
                    Max(probe.haloSize * ClaimedFactor(probe.rev),
                        ClaimedFloor(probe.rev)))

\* C1, for the two revisions that take the maximum
C1_HoldsWhereMaxIsTaken ==
  (FlyToProbed /\ probe.current # probe.target /\ probe.rev # "instanced") =>
    OnRayAtDistance(probe.newCameraPosition, probe.target, probe.current,
                    Max(probe.haloSize * ClaimedFactor(probe.rev),
                        ClaimedFloor(probe.rev)))

\* C1, the instanced revision as coded: the 0.1 Mpc is a ceiling
C1_InstancedTakesMinimum ==
  (FlyToProbed /\ probe.current # probe.target /\ probe.rev = "instanced") =>
    OnRayAtDistance(probe.newCameraPosition, probe.target, probe.current,
                    Min(probe.haloSize * FlyToFactorInstanced, FlyToCapInstanced))

\* ------------------------------------------------------------------------
\* Zero-sized container
\* ------------------------------------------------------------------------

\* the container size handleResize saw last (at mount, and on every resize)
ObservedSize == IF pendingDims # <<>> THEN pendingDims ELSE dimensions
ZeroSized(size) == size[1] = 0 \/ size[2] = 0

\* C11: while the observed container size is zero in width or height no tick
\* updates the controller or renders, and the renderer size and camera aspect
\* held by the refs are never derived from a zero size.
C11_NoFrameWorkWhileZeroSized ==
  /\ (phase = "mounted" /\ ZeroSized(ObservedSize)) =>
       \A i \in LogIdx : frameLog[i].type \notin {"update", "render"}
  /\ refs.renderer # 0 => ~ZeroSized(objs[refs.renderer].rsize)
  /\ refs.camera # 0 => objs[refs.camera].aspect # <<0, 0>>

\* ------------------------------------------------------------------------
\* Numbers as JavaScript holds them: a finite value, NaN or an infinity.
\* The model's integers stand for the finite doubles.
\* ------------------------------------------------------------------------

Num(n) == <<"num", n>>
NaN == <<"nan", 0>>
Infinity(sign) == <<"inf", sign>>
IsNum(v) == v[1] = "num"
IsNaN(v) == v[1] = "nan"

\* significand of a single-precision float, in bits
Float32Bits == 24

\* the spacing of single-precision values around magnitude m
RECURSIVE Ulp(_)
Ulp(m) == IF m < 2 ^ Float32Bits THEN 1 ELSE 2 * Ulp(m \div 2)

\* round-to-nearest, ties to even, of magnitude m to a multiple of u
RoundToEven(m, u) ==
  LET q == m \div u
      r == m % u
  IN IF 2 * r > u \/ (2 * r = u /\ q % 2 = 1) THEN (q + 1) * u ELSE q * u

\* storing a number into a Float32Array element (Math.fround)
Float32(v) ==
  IF ~IsNum(v) THEN v
  ELSE LET m == Abs(v[2])
       IN Num((IF v[2] < 0 THEN -1 ELSE 1) * RoundToEven(m, Ulp(m)))

\* arr[i] for a 1-based index: undefined past the end, NaN once stored
Element(arr, i) == IF i \in 1..Len(arr) THEN Num(arr[i]) ELSE NaN

\* size[i] * 2
Twice(v) == IF IsNum(v) THEN Num(2 * v[2]) ELSE v
\* instanceScale.x * 0.5
Half(v) == IF IsNum(v) THEN Num(v[2] \div 2) ELSE v

\* ------------------------------------------------------------------------
\* The geometry builder (inside the scene effect), as a function of the
\* arrays x, y, z, size, core_size
\* ------------------------------------------------------------------------

\* mutant of PositionBuffer: y and z are written to each other's slot
PositionBufferSwapped(a) ==
  [k \in 1..(3 * Len(a.x)) |->
     LET i == (k + 2) \div 3
     IN Float32(CASE k % 3 = 1 -> Element(a.x, i)
                  [] k % 3 = 2 -> Element(a.z, i)
                  [] k % 3 = 0 -> Element(a.y, i))]

\* positions / instancePositions: Float32Array(x.length * 3), filled by the loop
PositionBuffer(a) ==
  [k \in 1..(3 * Len(a.x)) |->
     LET i == (k + 2) \div 3
     IN Float32(CASE k % 3 = 1 -> Element(a.x, i)
                  [] k % 3 = 2 -> Element(a.y, i)
                  [] k % 3 = 0 -> Element(a.z, i))]

\* radius: Float32Array(x.length), radius[i] = size[i]
RadiusBuffer(a) == [i \in 1..Len(a.x) |-> Float32(Element(a.size, i))]

\* coreRadius / instanceCoreSize: Float32Array(x.length), [i] = core_size[i]
CoreRadiusBuffer(a) == [i \in 1..Len(a.x) |-> Float32(Element(a.core_size, i))]

\* instanceScales: Float32Array(x.length * 3) holding (2 size, 2 size, 1)
InstanceScaleBuffer(a) ==
  [k \in 1..(3 * Len(a.x)) |->
     LET i == (k + 2) \div 3
     IN Float32(IF k % 3 = 0 THEN Num(1) ELSE Twice(Element(a.size, i)))]

\* the attributes of the geometry in each revision; outer is the outer radius
\* the shader sees (attribute size, or instanceScale.x * 0.5); the builder
\* has no failure path, so thrown is FALSE whatever the arrays are
BuildGeometry(rev, a) ==
  [position |-> PositionBuffer(a),
   outer |-> IF rev = "instanced"
             THEN [i \in 1..Len(a.x) |-> Half(InstanceScaleBuffer(a)[3 * i - 2])]
             ELSE RadiusBuffer(a),
   core |-> CoreRadiusBuffer(a),
   thrown |-> FALSE]

\* entities the probed arrays are made of
MaxEntities == 2
ProbeEntities ==
  {[id |-> 1, x |-> 200, y |-> 300, z |-> 0, r200b |-> 20, rc |-> 5],
   [id |-> 2, x |-> -100, y |-> 0, z |-> 600, r200b |-> 100, rc |-> 20],
   [id |-> 3, x |-> 16777217, y |-> -33554434, z |-> 7, r200b |-> 16777219, rc |-> 3]}

RECURSIVE SeqsUpTo(_, _)
SeqsUpTo(S, n) ==
  IF n = 0 THEN {<<>>}
  ELSE LET shorter == SeqsUpTo(S, n - 1)
       IN shorter \cup {Append(q, e) : q \in {t \in shorter : Len(t) = n - 1}, e \in S}

ArrayNames == {"x", "y", "z", "size", "core_size", "ids"}

\* the arrays of a list of entities, one of them (or none) a entry short
ArraysOf(entities, short) ==
  LET full == [x |-> MapSeq(entities, LAMBDA h : h.x),
               y |-> MapSeq(entities, LAMBDA h : h.y),
               z |-> MapSeq(entities, LAMBDA h : h.z),
               size |-> MapSeq(entities, LAMBDA h : h.r200b),
               core_size |-> MapSeq(entities, LAMBDA h : h.rc),
               ids |-> MapSeq(entities, LAMBDA h : h.id)]
  IN IF short \in ArrayNames /\ entities # <<>>
     THEN [full EXCEPT ![short] = SubSeq(@, 1, Len(@) - 1)]
     ELSE full

ProbeGeometry ==
  /\ \E rev \in {"instanced", "pointsize"}, entities \in SeqsUpTo(ProbeEntities, MaxEntities),
        short \in ArrayNames \cup {"none"} :
       LET a == ArraysOf(entities, short)
       IN probe' = [op |-> "geometry", rev |-> rev, arrays |-> a,
                    geometry |-> BuildGeometry(rev, a)]
  /\ UNCHANGED <<phase, selectedHaloId, massThreshold, pointColor, container,
                 dimensions, pendingDims, objs, refs, frameId, sceneCleanup,
                 flyCleanup, rafQueue, gsapAwake, gsapId, timelines, started,
                 frameLog, killed, events, api, worker>>

InitGeometry == Unmounted(Undefined, <<InitWidth, InitHeight>>, FALSE)
NextGeometry == ProbeGeometry
SpecGeometry == InitGeometry /\ [][NextGeometry]_vars

GeometryProbed == probe # <<>> /\ probe.op = "geometry"
SameLengths(a) == \A n \in ArrayNames : Len(a[n]) = Len(a.x)

\* buffer entry i holds exactly the numbers given for entity i
ExactEntry(g, a, i) ==
  /\ g.position[3 * i - 2] = Num(a.x[i])
  /\ g.position[3 * i - 1] = Num(a.y[i])
  /\ g.position[3 * i] = Num(a.z[i])
  /\ g.outer[i] = Num(a.size[i])
  /\ g.core[i] = Num(a.core_size[i])

\* buffer entry i holds the single-precision values of entity i
Float32Entry(g, a, i) ==
  /\ g.position[3 * i - 2] = Float32(Num(a.x[i]))
  /\ g.position[3 * i - 1] = Float32(Num(a.y[i]))
  /\ g.position[3 * i] = Float32(Num(a.z[i]))
  /\ g.outer[i] = Float32(Num(a.size[i]))
  /\ g.core[i] = Float32(Num(a.core_size[i]))

RightLengths(g, n) ==
  Len(g.position) = 3 * n /\ Len(g.outer) = n /\ Len(g.core) = n

\* C12 as stated: for n entities the buffers have exactly n entries in input
\* order and entry i is (x[i], y[i], z[i]), size[i], core_size[i] themselves.
C12_BuffersHoldInputsExactly ==
  (GeometryProbed /\ SameLengths(probe.arrays)) =>
    /\ RightLengths(probe.geometry, Len(probe.arrays.x))
    /\ \A i \in 1..Len(probe.arrays.x) : ExactEntry(probe.geometry, probe.arrays, i)

\* C12, amended: for n entities the buffers have exactly n entries in input
\* order and entry i holds the single-precision values of (x[i], y[i], z[i]),
\* size[i] and core_size[i]; the index the id lookup finds for an id names,
\* in the buffers, an entity with that id.
C12_BuffersInInputOrder ==
  (GeometryProbed /\ SameLengths(probe.arrays)) =>
    /\ RightLengths(probe.geometry, Len(probe.arrays.x))
    /\ \A i \in 1..Len(probe.arrays.x) :
         /\ Float32Entry(probe.geometry, probe.arrays, i)
         /\ LET haloIndex == FindIndex(probe.arrays.ids, probe.arrays.ids[i])
            IN /\ haloIndex \in 1..Len(probe.arrays.x)
               /\ Float32Entry(probe.geometry, probe.arrays, haloIndex)

\* two different entities were built into the buffers, the second needing
\* more than 24 significant bits
C12_Witness ==
  /\ GeometryProbed /\ SameLengths(probe.arrays) /\ Len(probe.arrays.x) = 2
  /\ probe.arrays.ids = <<1, 3>>
  /\ probe.geometry.position[4] = Num(16777216)

\* C14: arrays that disagree in length make the builder fail visibly, and no
\* buffer with a missing (NaN) entry is built.
C14_LengthMismatchFails ==
  (GeometryProbed /\ ~SameLengths(probe.arrays)) =>
    /\ probe.geometry.thrown
    /\ \A k \in 1..Len(probe.geometry.position) : ~IsNaN(probe.geometry.position[k])
    /\ \A i \in 1..Len(probe.geometry.outer) :
         ~IsNaN(probe.geometry.outer[i]) /\ ~IsNaN(probe.geometry.core[i])

\* ------------------------------------------------------------------------
\* GPU resources
\* ------------------------------------------------------------------------

RECURSIVE LiveCount(_)
\* number of GPU resources still allocated by the first g builds
LiveCount(g) == IF g = 0 THEN 0 ELSE Cardinality(objs[g].live) + LiveCount(g - 1)

\* C13: a rebuild disposes every GPU resource of the previous build, so only
\* the live scene holds any: the count of live resources never exceeds one
\* build's and is zero after unmount.
C13_ResourcesDisposed ==
  /\ \A g \in 1..Len(objs) : g # sceneCleanup => objs[g].live = {}
  /\ LiveCount(Len(objs)) <= Cardinality(SceneResources)
  /\ phase = "unmounted" => LiveCount(Len(objs)) = 0

\* ------------------------------------------------------------------------
\* The fragment shader, as a function of the fragment's distance from the
\* sprite centre (dist, with DistHalf standing for 0.5), vSize and vCoreSize.
\* Opacities are exact fractions <<numerator, denominator>>.
\* ------------------------------------------------------------------------

\* dist = 0.5: the edge of the disk
DistHalf == 100
\* bool isEdge = dist > 0.48                   (instanced revision)
EdgeDist == 96
\* float virialBandWidth = vSize * 0.02        (point-size revision), in percent
BandPercent == 2

Fraction(n, d) == LET g == Gcd(Abs(n), Abs(d)) IN <<n \div g, d \div g>>
Opaque == <<1, 1>>
Transparent == <<0, 1>>
\* vec4(1.0, 1.0, 1.0, 0.8)
RingAlpha == <<4, 5>>
\* a division by zero: no defined opacity
ZeroByZero == <<0, 0>>

\* clamp(f, 0.0, 1.0) for a fraction with positive denominator
Clamp(f) == IF f[1] < 0 THEN Transparent ELSE IF f[1] > f[2] THEN Opaque ELSE f

\* physicalRadius = dist * 2.0 * vSize, times DistHalf
PhysicalRadius(dist, vSize) == dist * vSize

\* mutant of WithinCore: the core boundary itself is left to the falloff
WithinCoreStrict(dist, vSize, vCoreSize) ==
  PhysicalRadius(dist, vSize) < DistHalf * vCoreSize

\* physicalRadius <= vCoreSize
WithinCore(dist, vSize, vCoreSize) ==
  PhysicalRadius(dist, vSize) <= DistHalf * vCoreSize

\* mutant of Falloff: the falloff runs the wrong way
FalloffRising(dist, vSize, vCoreSize) ==
  Clamp(Fraction(PhysicalRadius(dist, vSize) - DistHalf * vCoreSize,
                 DistHalf * (vSize - vCoreSize)))

\* clamp((vSize - physicalRadius) / (vSize - vCoreSize), 0.0, 1.0)
Falloff(dist, vSize, vCoreSize) ==
  Clamp(Fraction(DistHalf * vSize - PhysicalRadius(dist, vSize),
                 DistHalf * (vSize - vCoreSize)))

\* if (physicalRadius > vSize) discard;  /  if (dist > 0.5) discard;
Discarded(rev, dist, vSize) ==
  IF rev = "instanced" THEN dist > DistHalf
  ELSE PhysicalRadius(dist, vSize) > DistHalf * vSize

\* the white band: physicalRadius within [vSize - 0.02 vSize, vSize], or
\* dist > 0.48
InRing(rev, dist, vSize) ==
  IF rev = "instanced" THEN dist > EdgeDist
  ELSE /\ PhysicalRadius(dist, vSize) >= DistHalf * vSize - BandPercent * vSize
       /\ PhysicalRadius(dist, vSize) <= DistHalf * vSize

\* one run of main(): whether the fragment is discarded, whether the division
\* was evaluated and by what, and the colour and opacity written
FragmentShader(rev, dist, vSize, vCoreSize) ==
  IF Discarded(rev, dist, vSize)
  THEN [discarded |-> TRUE, divided |-> FALSE, divisor |-> 0,
        color |-> "none", opacity |-> Transparent]
  ELSE LET core == WithinCore(dist, vSize, vCoreSize)
           divisor == IF core THEN 0 ELSE vSize - vCoreSize
           alpha == IF core THEN Opaque
                    ELSE IF divisor = 0 THEN ZeroByZero
                    ELSE Falloff(dist, vSize, vCoreSize)
       IN IF InRing(rev, dist, vSize)
          THEN [discarded |-> FALSE, divided |-> ~core, divisor |-> divisor,
                color |-> "white", opacity |-> RingAlpha]
          ELSE [discarded |-> FALSE, divided |-> ~core, divisor |-> divisor,
                color |-> "color", opacity |-> alpha]

ProbeDists == {0, 25, 48, 50, 75, 96, 97, 98, 99, 100, 101, 141}
ProbeOuter == {0, 50, 100}
ProbeCore == {0, 25, 49, 50, 99, 100, 120}

ProbeShader ==
  /\ \E rev \in {"instanced", "pointsize"}, dist \in ProbeDists, vSize \in ProbeOuter,
        vCoreSize \in ProbeCore :
       \* an instanced plane scaled by 2 * 0 covers no fragment
       /\ rev = "instanced" => vSize > 0
       /\ probe' = [op |-> "shader", rev |-> rev, dist |-> dist, vSize |-> vSize,
                    vCoreSize |-> vCoreSize,
                    fragment |-> FragmentShader(rev, dist, vSize, vCoreSize)]
  /\ UNCHANGED <<phase, selectedHaloId, massThreshold, pointColor, container,
                 dimensions, pendingDims, objs, refs, frameId, sceneCleanup,
                 flyCleanup, rafQueue, gsapAwake, gsapId, timelines, started,
                 frameLog, killed, events, api, worker>>

InitShader == Unmounted(Undefined, <<InitWidth, InitHeight>>, FALSE)
NextShader == ProbeShader
SpecShader == InitShader /\ [][NextShader]_vars

ShaderProbed == probe # <<>> /\ probe.op = "shader"
\* the claims' precondition on the radii
ValidRadii == 0 <= probe.vCoreSize /\ probe.vCoreSize <= probe.vSize
\* physical radius rho against the radii (all times DistHalf)
Rho == PhysicalRadius(probe.dist, probe.vSize)
RhoWithinCore == Rho <= DistHalf * probe.vCoreSize
RhoWithinOuter == Rho <= DistHalf * probe.vSize
\* opacity is at most the linear falloff (R - rho) / (R - r), which tends to
\* 0 as rho approaches R
BelowLinearFalloff(opacity) ==
  opacity[1] * DistHalf * (probe.vSize - probe.vCoreSize)
    <= opacity[2] * (DistHalf * probe.vSize - Rho)
\* opacity is the linear falloff (R - rho) / (R - r) itself
OnLinearFalloff(opacity) ==
  opacity[1] * DistHalf * (probe.vSize - probe.vCoreSize)
    = opacity[2] * (DistHalf * probe.vSize - Rho)
\* the fragment lies in the band the revision draws white
ProbedInRing ==
  IF probe.rev = "instanced" THEN probe.dist > EdgeDist
  ELSE (DistHalf - BandPercent) * probe.vSize <= Rho /\ RhoWithinOuter

\* C15 as stated: for 0 <= r <= R the opacity is exactly 1 for rho <= r,
\* falls to 0 as rho approaches R from below (it is bounded by the linear
\* falloff), and fragments with rho > R are discarded.
C15_OpacityProfile ==
  (ShaderProbed /\ ValidRadii) =>
    /\ ~RhoWithinOuter => probe.fragment.discarded
    /\ RhoWithinOuter /\ RhoWithinCore =>
         ~probe.fragment.discarded /\ probe.fragment.opacity = Opaque
    /\ RhoWithinOuter /\ ~RhoWithinCore =>
         ~probe.fragment.discarded /\ BelowLinearFalloff(probe.fragment.opacity)

\* C15, amended: outside the white band the opacity is 1 for rho <= r and the
\* linear falloff (R - rho) / (R - r) beyond; a fragment in the band has
\* opacity 0.8 whatever its radius; fragments with rho > R are discarded.
C15_OpacityProfileOutsideRing ==
  (ShaderProbed /\ ValidRadii) =>
    /\ ~RhoWithinOuter => probe.fragment.discarded
    /\ RhoWithinOuter => ~probe.fragment.discarded
    /\ RhoWithinOuter /\ ~ProbedInRing /\ RhoWithinCore =>
         probe.fragment.opacity = Opaque
    /\ RhoWithinOuter /\ ~ProbedInRing /\ ~RhoWithinCore =>
         OnLinearFalloff(probe.fragment.opacity)
    /\ RhoWithinOuter /\ ProbedInRing => probe.fragment.opacity = RingAlpha

\* a fragment half way down the falloff: opacity 1/2
C15_Witness ==
  /\ ShaderProbed /\ ValidRadii /\ probe.vSize = 100 /\ probe.vCoreSize = 50
  /\ probe.dist = 75 /\ probe.fragment.opacity = <<1, 2>>

\* C16 as stated: with r = R the division by (R - r) is never evaluated,
\* every fragment with rho <= R is fully opaque and every other is discarded.
C16_EqualRadiiAllOpaque ==
  (ShaderProbed /\ probe.vCoreSize = probe.vSize) =>
    /\ ~probe.fragment.divided
    /\ RhoWithinOuter =>
         ~probe.fragment.discarded /\ probe.fragment.opacity = Opaque
    /\ ~RhoWithinOuter => probe.fragment.discarded

\* C16, amended: with r = R the division by (R - r) is never evaluated, every
\* fragment with rho <= R outside the white band is fully opaque, those in
\* the band have opacity 0.8, and every fragment with rho > R is discarded.
C16_EqualRadiiNoDivision ==
  (ShaderProbed /\ probe.vCoreSize = probe.vSize) =>
    /\ ~probe.fragment.divided
    /\ RhoWithinOuter => ~probe.fragment.discarded
    /\ RhoWithinOuter /\ ~ProbedInRing => probe.fragment.opacity = Opaque
    /\ RhoWithinOuter /\ ProbedInRing => probe.fragment.opacity = RingAlpha
    /\ ~RhoWithinOuter => probe.fragment.discarded

\* a fragment exactly on the common radius r = R > 0
C16_Witness ==
  /\ ShaderProbed /\ probe.vCoreSize = probe.vSize /\ probe.vSize = 100
  /\ probe.dist = DistHalf /\ ~probe.fragment.discarded

\* C17: exactly the non-discarded fragments within 2% of R below R are drawn
\* white with opacity 0.8; every other one has the entity colour.
C17_RingWithinTwoPercent ==
  (ShaderProbed /\ ValidRadii /\ ~probe.fragment.discarded) =>
    LET withinTwoPercent == 98 * probe.vSize <= Rho   \* 0.98 R <= rho
    IN /\ withinTwoPercent =>
            probe.fragment.color = "white" /\ probe.fragment.opacity = RingAlpha
       /\ ~withinTwoPercent => probe.fragment.color = "color"

\* ------------------------------------------------------------------------
\* The catalog loader (getHalos) and the mass filter, one catalog row at a
\* time. Masses and positions are in the catalog's units, radii in kpc
\* (the division by 1000 turns them into Mpc).
\* ------------------------------------------------------------------------

\* the decimal numerals among the column texts, and their values
Decimal ==
  ("0" :> 0) @@ ("7" :> 7) @@ ("25" :> 25) @@ ("27" :> 27) @@ ("31" :> 31)
    @@ ("100" :> 100) @@ ("200" :> 200) @@ ("500" :> 500) @@ ("-4" :> -4)

\* parseFloat of a column text
ParseFloat(text) ==
  CASE text \in DOMAIN Decimal -> Num(Decimal[text])
    [] text \in {"Infinity", "1e999"} -> Infinity(1)
    [] text = "-Infinity" -> Infinity(-1)
    [] OTHER -> NaN

\* parseInt of a column text: the leading decimal digits
ParseInt(text) ==
  CASE text \in DOMAIN Decimal -> Num(Decimal[text])
    [] text = "1e999" -> Num(1)
    [] OTHER -> NaN

\* a - n for a finite n
Minus(a, n) == IF IsNum(a) THEN Num(a[2] - n) ELSE a

\* a / b in floating point for a finite b (exact when b divides a)
Divide(a, b) ==
  CASE IsNaN(a) -> NaN
    [] b = 0 /\ IsNum(a) /\ a[2] = 0 -> NaN
    [] b = 0 /\ IsNum(a) -> Infinity(IF a[2] > 0 THEN 1 ELSE -1)
    [] b = 0 -> a
    [] IsNum(a) -> Num(a[2] \div b)
    [] OTHER -> Infinity(IF b > 0 THEN a[2] ELSE -a[2])

\* the parsed fields of one data line
ParseRow(columns, h0) ==
  [id |-> ParseInt(columns.id),
   mass |-> Divide(ParseFloat(columns.m200b), h0),
   x |-> Divide(Minus(ParseFloat(columns.x), 25), h0),
   y |-> Divide(Minus(ParseFloat(columns.y), 25), h0),
   z |-> Divide(Minus(ParseFloat(columns.z), 25), h0),
   rc |-> Divide(ParseFloat(columns.Rs), h0),
   r200b |-> Divide(ParseFloat(columns.r200b), h0)]

\* if (isNaN(id) || isNaN(mass) || ... || isNaN(r200b)) continue;
SkipInvalid(halo) ==
  \/ IsNaN(halo.id) \/ IsNaN(halo.mass) \/ IsNaN(halo.x) \/ IsNaN(halo.y)
  \/ IsNaN(halo.z) \/ IsNaN(halo.rc) \/ IsNaN(halo.r200b)

\* a >= b for a non-NaN a and a finite b
AtLeast(a, b) == IF IsNum(a) THEN a[2] >= b ELSE a[2] > 0

\* halo.mass >= massThreshold
PassesMassFilter(halo, threshold) == ~IsNaN(halo.mass) /\ AtLeast(halo.mass, threshold)

\* what one data line puts into the arrays given to PointCloud3D
Delivered(columns, h0, threshold) ==
  LET halo == ParseRow(columns, h0)
  IN IF SkipInvalid(halo) \/ ~PassesMassFilter(halo, threshold) THEN <<>>
     ELSE <<halo>>

ProbeRows ==
  [id : {"7", "abc", "1e999"}, m200b : {"100", "abc", "Infinity"},
   x : {"31", "abc", "1e999"}, y : {"25", "-Infinity"}, z : {"27"},
   Rs : {"100", "500", "-4", "abc"}, r200b : {"200", "0", "Infinity", "abc"}]
\* #h0 = ... as parsed (1 when the header has none)
ProbeH0 == {1, 2, 0}
ProbeThresholds == {0, 75}

\* the catalog is loaded once (it is cached afterwards)
ProbeLoader ==
  /\ probe = <<>>
  /\ \E columns \in ProbeRows, h0 \in ProbeH0, threshold \in ProbeThresholds :
       probe' = [op |-> "loader", columns |-> columns, h0 |-> h0,
                 massThreshold |-> threshold,
                 delivered |-> Delivered(columns, h0, threshold)]
  /\ UNCHANGED <<phase, selectedHaloId, massThreshold, pointColor, container,
                 dimensions, pendingDims, objs, refs, frameId, sceneCleanup,
                 flyCleanup, rafQueue, gsapAwake, gsapId, timelines, started,
                 frameLog, killed, events, api, worker>>

InitLoader == Unmounted(Undefined, <<InitWidth, InitHeight>>, FALSE)
NextLoader == ProbeLoader
SpecLoader == InitLoader /\ [][NextLoader]_vars

LoaderDelivered == probe # <<>> /\ probe.op = "loader" /\ probe.delivered # <<>>
DeliveredHalo == probe.delivered[1]

\* C18: every entity that reaches the renderer has id, x, y, z, outer radius
\* and core radius finite.
C18_DeliveredFieldsFinite ==
  LoaderDelivered =>
    /\ IsNum(DeliveredHalo.id) /\ IsNum(DeliveredHalo.x) /\ IsNum(DeliveredHalo.y)
    /\ IsNum(DeliveredHalo.z) /\ IsNum(DeliveredHalo.r200b) /\ IsNum(DeliveredHalo.rc)

\* C19: every entity that reaches the renderer has a finite outer radius
\* R > 0 and a core radius with 0 <= r <= R.
C19_DeliveredRadiiOrdered ==
  LoaderDelivered =>
    /\ IsNum(DeliveredHalo.r200b) /\ IsNum(DeliveredHalo.rc)
    /\ DeliveredHalo.r200b[2] > 0
    /\ 0 <= DeliveredHalo.rc[2] /\ DeliveredHalo.rc[2] <= DeliveredHalo.r200b[2]

\* ------------------------------------------------------------------------
\* Selection signals
\* ------------------------------------------------------------------------

\* C20: a selection signal starts one fly-to; while selectedHaloId stays
\* unchanged no later event of the mounted component (new entity arrays,
\* resize, colour change, frames) starts another.
C20_OneFlyToPerSelection ==
  [][(phase = "mounted" /\ selectedHaloId' = selectedHaloId) => started' = started]_vars

\* ------------------------------------------------------------------------
\* Lockstep of the two tweens
\* ------------------------------------------------------------------------

\* C21: in every tick of a fly-to the camera-position tween and the
\* orbit-target tween render at the same eased fraction; the fraction is
\* above 0 from the first tick on and both reach 1 in the same tick, the
\* timeline's last.
C21_TweensInLockstep ==
  \A i \in LogIdx :
    IsAnim(frameLog[i]) =>
      /\ frameLog[i].posFraction = frameLog[i].targetFraction
      /\ frameLog[i].posFraction[1] > 0
      /\ (frameLog[i].posFraction = <<1, 1>>) <=> (frameLog[i].type = "animEnd")

\* a tick in the middle of a fly-to: both tweens half way
C21_Witness ==
  \E i \in LogIdx :
    /\ frameLog[i].type = "anim"
    /\ frameLog[i].posFraction = <<1, 2>> /\ frameLog[i].targetFraction = <<1, 2>>

\* ------------------------------------------------------------------------
\* The vertex shaders: the on-screen footprint of one entity, for a camera
\* looking at the entity from k steps back along its viewing direction.
\* A view is the camera's right, up and forward directions as integer
\* vectors (mutually orthogonal, not normalised); squared pixel sizes are
\* exact fractions in units of (f / 2)^2, f the projection's focal factor.
\* ------------------------------------------------------------------------

ProbeViews ==
  {[right |-> <<1, 0, 0>>, up |-> <<0, 1, 0>>, forward |-> <<0, 0, -1>>],
   [right |-> <<0, 0, -1>>, up |-> <<0, 1, 0>>, forward |-> <<-1, 0, 0>>],
   [right |-> <<1, 0, 0>>, up |-> <<0, 0, -1>>, forward |-> <<0, -1, 0>>],
   [right |-> <<1, 0, -1>>, up |-> <<0, 1, 0>>, forward |-> <<-1, 0, -1>>],
   \* the pose the scene is built with: camera (2, 2, 2) looking at the origin
   [right |-> <<1, 0, -1>>, up |-> <<-1, 2, -1>>, forward |-> <<-1, -1, -1>>]}

VScale(v, k) == <<v[1] * k, v[2] * k, v[3] * k>>

\* gl_PointSize squared (point-size revision): the entity is at k * forward
\* from the camera, the second point at position + vec3(size, 0, 0);
\* radiusPixels = length(offsetScreen - centerScreen) * viewportSize.x * 0.5
PointSizeSq(view, size, k, viewport) ==
  LET center == VScale(view.forward, k)
      offset == VAdd(center, <<size, 0, 0>>)
      F2 == LengthSq(view.forward)
      R2 == LengthSq(view.right)
      U2 == LengthSq(view.up)
      \* offsetScreen - centerScreen; centerScreen is (0, 0) on the axis
      dx == Dot(offset, view.right)
      dy == Dot(offset, view.up)
      depth == Dot(offset, view.forward)
      w == viewport[1]
      h == viewport[2]
  IN Fraction(4 * F2 * (h * h * dx * dx * U2 + w * w * dy * dy * R2),
              depth * depth * R2 * U2)

\* width squared of the billboard (instanced revision): the plane's corners
\* are at position.x = -0.5 and 0.5 times cameraRight * instanceScale.x from
\* the instance position, cameraRight the unit right vector of the view
BillboardSizeSq(view, size, k, viewport) ==
  LET scale == 2 * size
      F2 == LengthSq(view.forward)
      h == viewport[2]
  IN Fraction(scale * scale * h * h, k * k * F2)

VertexShader(rev, view, size, k, viewport) ==
  IF rev = "instanced" THEN BillboardSizeSq(view, size, k, viewport)
  ELSE PointSizeSq(view, size, k, viewport)

ProbeSizes == {1, 2}
ProbeSteps == {3, 4, 5}
\* 800 x 600 and 400 x 400, in units of 200 pixels
ProbeViewports == {<<4, 3>>, <<2, 2>>}

ProbeFootprint ==
  /\ \E rev \in {"instanced", "pointsize"}, view \in ProbeViews, size \in ProbeSizes,
        k \in ProbeSteps, viewport \in ProbeViewports :
       probe' = [op |-> "footprint", rev |-> rev, view |-> view, size |-> size,
                 k |-> k, viewport |-> viewport,
                 near |-> VertexShader(rev, view, size, k, viewport),
                 far |-> VertexShader(rev, view, size, 2 * k, viewport)]
  /\ UNCHANGED <<phase, selectedHaloId, massThreshold, pointColor, container,
                 dimensions, pendingDims, objs, refs, frameId, sceneCleanup,
                 flyCleanup, rafQueue, gsapAwake, gsapId, timelines, started,
                 frameLog, killed, events, api, worker>>

InitFootprint == Unmounted(Undefined, <<InitWidth, InitHeight>>, FALSE)
NextFootprint == ProbeFootprint
SpecFootprint == InitFootprint /\ [][NextFootprint]_vars

FootprintProbed == probe # <<>> /\ probe.op = "footprint"

\* the perspective footprint of a diameter 2 R seen from distance d:
\* (2 R / d) * (f / 2) * viewport height, squared, with d^2 = k^2 |forward|^2
IsPerspectiveSize(sq, size, k) ==
  sq[1] * k * k * LengthSq(probe.view.forward)
    = sq[2] * 4 * size * size * probe.viewport[2] * probe.viewport[2]

\* C22: for every camera position and orientation the footprint diameter is
\* the perspective size of 2 R at the camera's distance, so the diameter at
\* twice the distance is half the diameter (a quarter of its square).
C22_FootprintPerspective ==
  FootprintProbed =>
    /\ IsPerspectiveSize(probe.near, probe.size, probe.k)
    /\ IsPerspectiveSize(probe.far, probe.size, 2 * probe.k)
    /\ probe.near[1] > 0
    /\ 4 * probe.far[1] * probe.near[2] = probe.near[1] * probe.far[2]

\* C22, for the instanced revision alone
C22_BillboardPerspective ==
  (FootprintProbed /\ probe.rev = "instanced") => C22_FootprintPerspective

\* C22, for the point-size revision when world x is the camera's right axis
C22_PointSizePerspectiveHeadOn ==
  (FootprintProbed /\ probe.rev = "pointsize" /\ probe.view.right = <<1, 0, 0>>)
    => C22_FootprintPerspective

\* ------------------------------------------------------------------------
\* api.ts: getHalos and the module-level catalog cache. A load is one run
\* of the async body; its number stands for its promise and, once it has
\* succeeded, for the catalog object it built. 0 stands for null.
\* ------------------------------------------------------------------------

\* getHalos calls per behaviour
MaxCalls == 3

CatalogUrls == {"demo-halos/halos_00100.ascii", "other/halos.ascii"}

ComponentVars ==
  <<phase, selectedHaloId, massThreshold, pointColor, container, dimensions,
    pendingDims, objs, refs, frameId, sceneCleanup, flyCleanup, rafQueue,
    gsapAwake, gsapId, timelines, started, frameLog, killed, events>>

\* the loads whose fetch or body read has not settled
InFlight(a) ==
  {l \in 1..Len(a.loads) : a.loads[l].stage \in {"fetching", "reading"}}
Rejected(a) == {l \in 1..Len(a.loads) : a.loads[l].stage = "rejected"}
Fulfilled(a) == {l \in 1..Len(a.loads) : a.loads[l].stage = "fulfilled"}

\* what the promise of load l has settled to, if it has
Outcome(a, l) ==
  CASE l \in Fulfilled(a) -> "fulfilled"
    [] l \in Rejected(a) -> "rejected"
    [] OTHER -> "pending"

\* if (haloCatalogCache)
CacheHit(a) == a.haloCatalogCache # 0

\* mutant of PendingHit: the pending promise is not looked at
PendingHitNever(a) == FALSE

\* if (haloCatalogPromise)
PendingHit(a) == a.haloCatalogPromise # 0

\* getHalos(catalogUrl, signal) up to its return: the call is recorded with
\* the load its result comes from and with what was the case when it was made
GetHalos(a, url) ==
  LET call == [url |-> url, load |-> 0, fetched |-> FALSE, outcome |-> "pending",
               cacheAtCall |-> a.haloCatalogCache, pendingAtCall |-> InFlight(a),
               rejectedAtCall |-> Rejected(a)]
  IN IF CacheHit(a)
     THEN [a EXCEPT !.calls = Append(@, [call EXCEPT !.load = a.haloCatalogCache,
                                                    !.outcome = "fulfilled"])]
     ELSE IF PendingHit(a)
     THEN [a EXCEPT !.calls =
             Append(@, [call EXCEPT !.load = a.haloCatalogPromise,
                                    !.outcome = Outcome(a, a.haloCatalogPromise)])]
     ELSE LET l == Len(a.loads) + 1
          IN [a EXCEPT !.loads = Append(@, [url |-> url, stage |-> "fetching",
                                            cause |-> "none"]),
                       !.haloCatalogPromise = l,
                       !.calls = Append(@, [call EXCEPT !.load = l, !.fetched = TRUE])]

\* the promise of load l settles: every caller holding it sees the outcome
Settle(a, l, outcome) ==
  [a EXCEPT !.calls = [c \in 1..Len(a.calls) |->
                         IF a.calls[c].load = l /\ a.calls[c].outcome = "pending"
                         THEN [a.calls[c] EXCEPT !.outcome = outcome]
                         ELSE a.calls[c]]]

\* mutant of Catch: the failed promise is left in haloCatalogPromise
CatchKeepPromise(a, l, cause) ==
  Settle([a EXCEPT !.loads[l].stage = "rejected", !.loads[l].cause = cause],
         l, "rejected")

\* catch (error) { haloCatalogPromise = null; throw error; }
Catch(a, l, cause) ==
  Settle([a EXCEPT !.loads[l].stage = "rejected", !.loads[l].cause = cause,
                   !.haloCatalogPromise = 0],
         l, "rejected")

\* mutant of CacheWrite: the successful result is not cached
CacheWriteSkipped(a, l) ==
  Settle([a EXCEPT !.loads[l].stage = "fulfilled"], l, "fulfilled")

\* haloCatalogCache = catalog; return catalog;
CacheWrite(a, l) ==
  Settle([a EXCEPT !.loads[l].stage = "fulfilled", !.haloCatalogCache = l],
         l, "fulfilled")

\* a caller (the point cloud's query, the app's query, getHaloFromCatalog)
\* calls getHalos
GetHalosCall ==
  /\ Len(api.calls) < MaxCalls
  /\ \E url \in CatalogUrls : api' = GetHalos(api, url)
  /\ UNCHANGED <<ComponentVars, probe, worker>>

\* await fetch(...) settles with a response: if (!response.ok) throw
FetchResponds ==
  /\ \E l \in InFlight(api), ok \in BOOLEAN :
       /\ api.loads[l].stage = "fetching"
       /\ api' = IF ok THEN [api EXCEPT !.loads[l].stage = "reading"]
                 ELSE Catch(api, l, "http")
  /\ UNCHANGED <<ComponentVars, probe, worker>>

\* await fetch(...) or await response.text() rejects: the signal of the call
\* that started the load was aborted, or the network failed
FetchRejects ==
  /\ \E l \in InFlight(api), cause \in {"abort", "network"} :
       api' = Catch(api, l, cause)
  /\ UNCHANGED <<ComponentVars, probe, worker>>

\* await response.text() settles and the lines are parsed:
\* if (haloData.length === 0) throw
TextParsed ==
  /\ \E l \in InFlight(api), valid \in BOOLEAN :
       /\ api.loads[l].stage = "reading"
       /\ api' = IF valid THEN CacheWrite(api, l) ELSE Catch(api, l, "empty")
  /\ UNCHANGED <<ComponentVars, probe, worker>>

InitCatalog == Unmounted(Undefined, <<InitWidth, InitHeight>>, FALSE)
NextCatalog == GetHalosCall \/ FetchResponds \/ FetchRejects \/ TextParsed
SpecCatalog == InitCatalog /\ [][NextCatalog]_vars

Calls == 1..Len(api.calls)

\* C23: at most one catalog fetch is in flight at any time, and a getHalos
\* call made while a load is pending gets that load's promise and starts no
\* fetch, whatever url it passes.
C23_OneFetchInFlight ==
  /\ Cardinality(InFlight(api)) <= 1
  /\ \A c \in Calls :
       api.calls[c].pendingAtCall # {} =>
         /\ api.calls[c].load \in api.calls[c].pendingAtCall
         /\ ~api.calls[c].fetched

\* three calls, the later two made while the first one's load was pending,
\* one of them for another url
C23_Witness ==
  /\ Len(api.calls) = 3 /\ Len(api.loads) = 1
  /\ api.calls[2].pendingAtCall = {1} /\ api.calls[3].pendingAtCall = {1}
  /\ api.calls[3].url # api.calls[1].url

\* C24: a failed load rejects every caller that shares its promise, leaves
\* the cache empty and the pending promise cleared, and a later call is never
\* handed a promise that had already failed: it starts a new fetch.
C24_FailureClearsPromise ==
  /\ \A c \in Calls :
       /\ api.calls[c].load \in Rejected(api) => api.calls[c].outcome = "rejected"
       /\ api.calls[c].load \notin api.calls[c].rejectedAtCall
       /\ (api.calls[c].cacheAtCall = 0 /\ api.calls[c].pendingAtCall = {})
            => api.calls[c].fetched
  /\ api.haloCatalogPromise \notin Rejected(api)
  /\ api.haloCatalogCache \notin Rejected(api)
  /\ Fulfilled(api) = {} => api.haloCatalogCache = 0

\* two callers shared a load that failed; the third call started a new fetch
C24_Witness ==
  /\ Len(api.calls) = 3 /\ Len(api.loads) = 2
  /\ api.calls[1].load = 1 /\ api.calls[2].load = 1
  /\ api.calls[1].outcome = "rejected" /\ api.calls[2].outcome = "rejected"
  /\ api.calls[3].rejectedAtCall = {1} /\ api.calls[3].fetched
  /\ api.haloCatalogCache = 0

\* C25: a successful load is cached and the cache is never replaced: every
\* call made afterwards gets that load's catalog, fulfilled, without a fetch,
\* whatever url it passes.
C25_CacheIsFinal ==
  /\ Cardinality(Fulfilled(api)) <= 1
  /\ \A l \in Fulfilled(api) : api.haloCatalogCache = l
  /\ api.haloCatalogCache # 0 => api.haloCatalogCache \in Fulfilled(api)
  /\ \A c \in Calls :
       api.calls[c].cacheAtCall # 0 =>
         /\ api.calls[c].load = api.calls[c].cacheAtCall
         /\ api.calls[c].outcome = "fulfilled"
         /\ ~api.calls[c].fetched

\* a call for another url made after the catalog was cached
C25_Witness ==
  \E c \in Calls :
    /\ api.calls[c].cacheAtCall # 0
    /\ api.calls[c].url # api.loads[api.calls[c].cacheAtCall].url
    /\ api.calls[c].load = api.haloCatalogCache

\* ------------------------------------------------------------------------
\* HaloCatalogPointCloud: the mass filter, for any catalog and threshold
\* ------------------------------------------------------------------------

ProbeHalos ==
  {[id |-> 1, x |-> 200, y |-> 300, z |-> 0, r200b |-> 20, rc |-> 5, mass |-> 1],
   [id |-> 2, x |-> -100, y |-> 10, z |-> 600, r200b |-> 100, rc |-> 25, mass |-> 2],
   [id |-> 3, x |-> 50, y |-> -70, z |-> 90, r200b |-> 40, rc |-> 8, mass |-> 3]}
ProbeMassThresholds == {0, 2, 3, 4}

ProbeFilter ==
  /\ \E halos \in SeqsUpTo(ProbeHalos, MaxEntities), threshold \in ProbeMassThresholds,
        selected \in {1, 2, 3} :
       LET a == ArraysFrom(halos, threshold)
       IN probe' = [op |-> "filter", halos |-> halos, massThreshold |-> threshold,
                    arrays |-> a, selectedHaloId |-> selected,
                    haloIndex |-> FindIndex(a.ids, selected)]
  /\ UNCHANGED <<ComponentVars, api, worker>>

InitFilter == Unmounted(Undefined, <<InitWidth, InitHeight>>, FALSE)
NextFilter == ProbeFilter
SpecFilter == InitFilter /\ [][NextFilter]_vars

FilterProbed == probe # <<>> /\ probe.op = "filter"
\* the catalog positions of the halos at or above the threshold
Kept == {j \in 1..Len(probe.halos) : probe.halos[j].mass >= probe.massThreshold}
\* the catalog position of the i-th of them, in catalog order
KeptAt(i) == CHOOSE j \in Kept : Cardinality({k \in Kept : k <= j}) = i

\* C26: the six arrays have one length, the number of halos with
\* mass >= massThreshold; entry i of every array is the field of the i-th such
\* halo in catalog order; a selected id that no kept halo carries is not
\* found by the id lookup.
C26_ArraysAligned ==
  FilterProbed =>
    /\ \A n \in ArrayNames : Len(probe.arrays[n]) = Cardinality(Kept)
    /\ \A i \in 1..Cardinality(Kept) :
         LET halo == probe.halos[KeptAt(i)]
         IN /\ probe.arrays.x[i] = halo.x
            /\ probe.arrays.y[i] = halo.y
            /\ probe.arrays.z[i] = halo.z
            /\ probe.arrays.size[i] = halo.r200b
            /\ probe.arrays.core_size[i] = halo.rc
            /\ probe.arrays.ids[i] = halo.id
    /\ (\A j \in Kept : probe.halos[j].id # probe.selectedHaloId)
         => probe.haloIndex = 0
    /\ probe.haloIndex # 0 => probe.arrays.ids[probe.haloIndex] = probe.selectedHaloId

\* the selected halo is in the catalog, the threshold filters it out and
\* keeps the halo after it, which sits exactly at the threshold
C26_Witness ==
  /\ FilterProbed /\ Len(probe.halos) = 2 /\ Kept = {2}
  /\ probe.halos[1].id = probe.selectedHaloId
  /\ probe.halos[2].mass = probe.massThreshold
  /\ probe.haloIndex = 0 /\ probe.arrays.ids = <<probe.halos[2].id>>

\* ------------------------------------------------------------------------
\* The fly-to distance against the controller's distance bounds
\* ------------------------------------------------------------------------

\* controls.minDistance = 0.01               (instanced revision)
MinDistanceInstanced == 1

\* controls.minDistance of each revision; maxDistance is 50 in all of them
MinDistanceRev(rev) == IF rev = "instanced" THEN MinDistanceInstanced ELSE MinDistance

\* OrbitControls.update() without pending input: the offset's length is
\* clamped to [minDistance, maxDistance] and the position re-derived
OrbitPositionRev(rev, pos, target) ==
  LET offset == VSub(pos, target)
      r == VLength(offset)
      clamped == Max(MinDistanceRev(rev), Min(MaxDistance, r))
      newOffset ==
        IF r = 0 THEN <<0, clamped, 0>>
        ELSE IF clamped = r THEN offset
        ELSE <<RoundDiv(offset[1] * clamped, r), RoundDiv(offset[2] * clamped, r),
               RoundDiv(offset[3] * clamped, r)>>
  IN VAdd(target, newOffset)

\* outer radii: 0.01 Mpc ... 26 Mpc
ProbeClampRadii == {1, 2, 3, 20, 100, 2500, 2600}
ProbeClamp ==
  /\ probe = <<>>
  /\ \E rev \in {"instanced", "pointsize"}, current \in ProbePoints,
        target \in ProbePoints, haloSize \in ProbeClampRadii :
       LET distance == FlyToDistanceRev(rev, haloSize)
           end == NewCameraPosition(current, target, distance)
       IN /\ current # target
          /\ ExactFlyTo(current, target, distance)
          /\ probe' = [op |-> "clamp", rev |-> rev, current |-> current,
                       target |-> target, haloSize |-> haloSize,
                       distance |-> distance,
                       newCameraPosition |-> end,
                       updated |-> OrbitPositionRev(rev, end, target)]
  /\ UNCHANGED <<ComponentVars, api, worker>>

InitClamp == Unmounted(Undefined, <<InitWidth, InitHeight>>, FALSE)
NextClamp == ProbeClamp
SpecClamp == InitClamp /\ [][NextClamp]_vars

ClampProbed == probe # <<>> /\ probe.op = "clamp"

\* C27: for every entity the fly-to distance lies within the controller's
\* [minDistance, maxDistance], and the controller's update leaves the camera
\* at the fly-to's end position.
C27_DistanceWithinBounds ==
  ClampProbed =>
    /\ MinDistanceRev(probe.rev) <= probe.distance
    /\ probe.distance <= MaxDistance
    /\ probe.updated = probe.newCameraPosition

\* C27, for outer radii up to 25 Mpc in the point-size revision
C27_HoldsUpTo25Mpc ==
  (ClampProbed /\ probe.rev = "pointsize"
     /\ probe.haloSize * FlyToFactor <= MaxDistance) => C27_DistanceWithinBounds

\* C27, for outer radii from 0.01 Mpc up in the instanced revision
C27_HoldsInstanced ==
  (ClampProbed /\ probe.rev = "instanced" /\ probe.haloSize >= 1)
    => C27_DistanceWithinBounds

\* ------------------------------------------------------------------------
\* The fly-to effect run on a mounted component whose camera navigation has
\* left at a given position, for one entity
\* ------------------------------------------------------------------------

ProbeCoincide ==
  /\ probe = <<>>
  /\ \E rev \in {"instanced", "pointsize"}, current \in ProbePoints,
        target \in ProbePoints, haloSize \in ProbeRadii :
       LET mounted == SceneEffect(HandleResizeBody([State EXCEPT !.phase = "mounted"]))
           moved == [mounted EXCEPT !.objs[mounted.refs.camera].pos = current,
                                    !.selectedHaloId = 1]
           a == [x |-> <<target[1]>>, y |-> <<target[2]>>, z |-> <<target[3]>>,
                 size |-> <<haloSize>>, core_size |-> <<0>>, ids |-> <<1>>]
           after == FlyToEffectOn(moved, a, rev)
           distance == FlyToDistanceRev(rev, haloSize)
       IN /\ ExactFlyTo(current, target, distance)
          /\ probe' = [op |-> "coincide", rev |-> rev, current |-> current,
                       target |-> target, haloSize |-> haloSize,
                       distance |-> distance, started |-> after.started,
                       timelines |-> after.timelines]
  /\ UNCHANGED <<ComponentVars, api, worker>>

InitCoincide == Unmounted(Undefined, <<InitWidth, InitHeight>>, FALSE)
NextCoincide == ProbeCoincide
SpecCoincide == InitCoincide /\ [][NextCoincide]_vars

CoincideProbed == probe # <<>> /\ probe.op = "coincide"

\* C28: with the camera on the entity's position a fly-to is started all the
\* same, and its end camera position is the entity's position itself; with
\* the camera anywhere else the end position is at the computed (positive)
\* distance from the entity.
C28_CoincidentCameraEndsOnEntity ==
  CoincideProbed =>
    /\ probe.started = 1 /\ Len(probe.timelines) = 1
    /\ probe.timelines[1].toTarget = probe.target
    /\ probe.distance > 0
    /\ LengthSq(VSub(probe.timelines[1].toPos, probe.target))
         = IF probe.current = probe.target THEN 0
           ELSE probe.distance * probe.distance

\* the camera sat on the entity and a timeline ending on the entity started
C28_Witness ==
  /\ CoincideProbed /\ probe.current = probe.target /\ probe.started = 1
  /\ probe.timelines[1].fromPos = probe.target
  /\ probe.timelines[1].toPos = probe.target

\* ------------------------------------------------------------------------
\* Focus across scene rebuilds
\* ------------------------------------------------------------------------

\* C29: once a fly-to for the current, valid selection has been started and
\* no interpolation or re-render is outstanding, the scene being rendered has
\* its orbit target on the selected entity, whatever resizes and colour
\* changes happened since.
C29_FocusKeptAcrossRebuild ==
  (/\ phase = "mounted" /\ sceneCleanup # 0 /\ started > 0
   /\ selectedHaloId # Undefined /\ selectedHaloId \in CurrentIds
   /\ timelines = <<>> /\ pendingDims = <<>>)
    => objs[sceneCleanup].target = HaloPosition(selectedHaloId)

\* ------------------------------------------------------------------------
\* The Pyodide worker: ensurePyodide under the worker's message handler.
\* A runtime load is one call of self.loadPyodide; its number stands for the
\* runtime it yields. 0 stands for null.
\* ------------------------------------------------------------------------

\* command messages per behaviour
MaxCommands == 3

Commands == {"plot", "runCutout"}

\* runtime loads started and not yet settled
Loading(w) == {l \in 1..Len(w.loads) : w.loads[l] = "loading"}

\* self.onmessage up to the first await inside ensurePyodide:
\* if (pyodide) return pyodide; otherwise importScripts and loadPyodide
OnMessage(w, cmd) ==
  IF w.pyodide # 0
  THEN [w EXCEPT !.commands = Append(@, [cmd |-> cmd, stage |-> "running",
                                         load |-> w.pyodide,
                                         loadingAtArrival |-> Loading(w)])]
  ELSE LET l == Len(w.loads) + 1
       IN [w EXCEPT !.loads = Append(@, "loading"),
                    !.commands = Append(@, [cmd |-> cmd, stage |-> "loadPyodide",
                                            load |-> l,
                                            loadingAtArrival |-> Loading(w)])]

\* pyodide = await self.loadPyodide(...), then loadPackage(['micropip'])
LoadPyodideResolved(w, c) ==
  [w EXCEPT !.pyodide = w.commands[c].load,
            !.loads[w.commands[c].load] = "loaded",
            !.commands[c].stage = "loadPackage"]

\* a command message arrives and its handler runs up to its first await
Message ==
  /\ Len(worker.commands) < MaxCommands
  /\ \E cmd \in Commands : worker' = OnMessage(worker, cmd)
  /\ UNCHANGED <<ComponentVars, probe, api>>

\* the runtime a command is awaiting has loaded
LoadPyodideResolves ==
  /\ \E c \in 1..Len(worker.commands) :
       /\ worker.commands[c].stage = "loadPyodide"
       /\ worker' = LoadPyodideResolved(worker, c)
  /\ UNCHANGED <<ComponentVars, probe, api>>

\* the runtime a command is awaiting failed to load: the handler's catch
LoadPyodideRejects ==
  /\ \E c \in 1..Len(worker.commands) :
       /\ worker.commands[c].stage = "loadPyodide"
       /\ worker' = [worker EXCEPT !.loads[worker.commands[c].load] = "failed",
                                   !.commands[c].stage = "failed"]
  /\ UNCHANGED <<ComponentVars, probe, api>>

\* await pyodide.loadPackage(['micropip']) settles: ensurePyodide returns
MicropipLoaded ==
  /\ \E c \in 1..Len(worker.commands) :
       /\ worker.commands[c].stage = "loadPackage"
       /\ worker' = [worker EXCEPT !.commands[c].stage = "running"]
  /\ UNCHANGED <<ComponentVars, probe, api>>

\* the rest of the command's handler runs to its end
CommandEnds ==
  /\ \E c \in 1..Len(worker.commands) :
       /\ worker.commands[c].stage = "running"
       /\ worker' = [worker EXCEPT !.commands[c].stage = "done"]
  /\ UNCHANGED <<ComponentVars, probe, api>>

InitWorker == Unmounted(Undefined, <<InitWidth, InitHeight>>, FALSE)
NextWorker ==
  \/ Message
  \/ LoadPyodideResolves
  \/ LoadPyodideRejects
  \/ MicropipLoaded
  \/ CommandEnds
SpecWorker == InitWorker /\ [][NextWorker]_vars

\* C30: at most one runtime load is ever in progress and at most one ever
\* succeeds; a command that arrives while a load is in progress takes its
\* runtime from that load and starts none.
C30_PyodideLoadedOnce ==
  /\ Cardinality(Loading(worker)) <= 1
  /\ Cardinality({l \in 1..Len(worker.loads) : worker.loads[l] = "loaded"}) <= 1
  /\ \A c \in 1..Len(worker.commands) :
       worker.commands[c].loadingAtArrival # {}
         => worker.commands[c].load \in worker.commands[c].loadingAtArrival
====
